---- MODULE Spec2Model ----
(***************************************************************************)
(* AnomalyScope cross-provider probe (src/src/anomaly_scanner/cross_probe.py) *)
(*                                                                         *)
(* Texts are sequences of characters.  Scores are Python floats, i.e.      *)
(* IEEE-754 binary64 numbers; they are modelled bit for bit (sign-free,    *)
(* normal range only: every score of the probe lies in [0, 16)), with      *)
(* round-to-nearest-even after every operation, because the probe          *)
(* compares and averages them with float arithmetic.                       *)
(***************************************************************************)
EXTENDS Integers, Sequences, FiniteSets, TLC

(***************************************************************************)
(* Bounds of the model.                                                    *)
(***************************************************************************)
\* longest provider selection (--providers) that is enumerated
MaxSel == 3
\* most responses one generate() call returns, and longest response set
\* given to cross_similarity
MaxRuns == 2
\* longest response set given to ProviderRun.from_responses on its own
MaxLen == 3

(***************************************************************************)
(* binary64 arithmetic on non-negative numbers.                            *)
(* A float is [e |-> exponent, m |-> mantissa bits, most significant       *)
(* first, m[1] = 1], of value 1.m[2]m[3]... * 2^e; zero has m = << >>.     *)
(***************************************************************************)
\* significand width of a Python float (binary64)
Prec == 53

FZero == [e |-> 0, m |-> << >>]

Zeros(n) == [i \in 1..n |-> 0]

\* the bit string plus one; one bit longer when every bit was set
BitsInc(m) ==
  LET zs == {i \in 1..Len(m) : m[i] = 0}
  IN IF zs = {} THEN <<1>> \o Zeros(Len(m))
     ELSE LET p == CHOOSE i \in zs : \A j \in zs : j <= i
          IN [i \in 1..Len(m) |-> IF i < p THEN m[i] ELSE IF i = p THEN 1 ELSE 0]

\* round-to-nearest, ties-to-even of the exact value 1.bits[2].. * 2^e
\* (sticky: a non-zero remainder lies beyond the last bit given)
FRound(e, bits, sticky) ==
  LET L == Len(bits)
      keep == [i \in 1..Prec |-> IF i <= L THEN bits[i] ELSE 0]
      guard == IF L > Prec THEN bits[Prec + 1] ELSE 0
      rest == sticky \/ \E i \in (Prec + 2)..L : bits[i] = 1
      up == guard = 1 /\ (rest \/ keep[Prec] = 1)
      inc == BitsInc(keep)
  IN IF ~up THEN [e |-> e, m |-> keep]
     ELSE IF Len(inc) > Prec THEN [e |-> e + 1, m |-> SubSeq(inc, 1, Prec)]
     ELSE [e |-> e, m |-> inc]

RECURSIVE LongDiv(_,_,_,_,_)
\* schoolbook division of the digits bits[lo..hi] by k, entered with
\* remainder r < k: each digit d turns the remainder r into 2r + d, gives
\* the quotient digit (2r + d) div k and leaves (2r + d) mod k.  The range
\* is worked left half first, then right half.  q: the quotient digits,
\* r: the remainder left.
LongDiv(bits, k, lo, hi, r) ==
  IF lo > hi THEN [q |-> << >>, r |-> r]
  ELSE IF lo = hi
    THEN LET t == 2 * r + bits[lo] IN [q |-> <<t \div k>>, r |-> t % k]
  ELSE LET mid == (lo + hi) \div 2
           left == LongDiv(bits, k, lo, mid, r)
           right == LongDiv(bits, k, mid + 1, hi, left.r)
       IN [q |-> left.q \o right.q, r |-> right.r]

\* number of 0 digits in front of the first 1
LeadingZeros(bits) ==
  LET os == {i \in 1..Len(bits) : bits[i] = 1}
  IN IF os = {} THEN Len(bits)
     ELSE (CHOOSE i \in os : \A j \in os : i <= j) - 1

RECURSIVE NatBits(_)
\* binary digits of a positive integer
NatBits(n) == IF n = 0 THEN << >> ELSE NatBits(n \div 2) \o <<n % 2>>

\* the float nearest to (integer with digits nb, unit 2^u) / k
FDivBits(nb, u, k) ==
  LET ext == nb \o Zeros(Prec + Len(NatBits(k)) + 1)
      d == LongDiv(ext, k, 1, Len(ext), 0)
      z == LeadingZeros(d.q)
  IN FRound(u + Len(nb) - 1 - z, SubSeq(d.q, z + 1, Len(d.q)), d.r # 0)

\* float(n) / float(d) for small naturals n, d > 0: the float nearest to n/d
FromRatio(n, d) == IF n = 0 THEN FZero ELSE FDivBits(NatBits(n), 0, d)

FOne == FromRatio(1, 1)

\* x / k for a float x and an integer k > 0
FDivInt(x, k) ==
  IF x.m = << >> THEN FZero ELSE FDivBits(x.m, x.e - (Prec - 1), k)

\* a + b for bit strings of one length; one bit longer on carry out.
\* The carry into digit i comes from the nearest digit j > i where both
\* are 1, provided exactly one is 1 at every digit in between.
BitsAdd(a, b) ==
  LET L == Len(a)
      carry(i) == \E j \in (i + 1)..L :
                    /\ a[j] + b[j] = 2
                    /\ \A k \in (i + 1)..(j - 1) : a[k] + b[k] = 1
      digit(i) == (a[i] + b[i] + (IF carry(i) THEN 1 ELSE 0)) % 2
      low == [i \in 1..L |-> digit(i)]
  IN IF carry(0) THEN <<1>> \o low ELSE low

\* x + y
FAdd(x, y) ==
  IF x.m = << >> THEN y
  ELSE IF y.m = << >> THEN x
  ELSE LET hi == IF x.e >= y.e THEN x ELSE y
           lo == IF x.e >= y.e THEN y ELSE x
           d == hi.e - lo.e
           s == BitsAdd(hi.m \o Zeros(d), Zeros(d) \o lo.m)
       IN FRound(hi.e + (Len(s) - (Prec + d)), s, FALSE)

BitsLess(a, b) ==
  \E i \in 1..Len(a) : a[i] < b[i] /\ \A j \in 1..(i - 1) : a[j] = b[j]

\* x < y
FLess(x, y) ==
  IF y.m = << >> THEN FALSE
  ELSE IF x.m = << >> THEN TRUE
  ELSE x.e < y.e \/ (x.e = y.e /\ BitsLess(x.m, y.m))

FMax2(x, y) == IF FLess(x, y) THEN y ELSE x
FMin2(x, y) == IF FLess(y, x) THEN y ELSE x

RECURSIVE FMaxSeq(_)
\* max() over a non-empty sequence of floats
FMaxSeq(s) == IF Len(s) = 1 THEN s[1] ELSE FMax2(s[1], FMaxSeq(Tail(s)))

RECURSIVE FMinSeq(_)
\* np.min over a non-empty sequence of floats
FMinSeq(s) == IF Len(s) = 1 THEN s[1] ELSE FMin2(s[1], FMinSeq(Tail(s)))

RECURSIVE FSumFrom(_,_,_)
\* acc + s[i] + s[i+1] + ..., added one after the other in list order
FSumFrom(s, i, acc) ==
  IF i > Len(s) THEN acc ELSE FSumFrom(s, i + 1, FAdd(acc, s[i]))

\* np.add.reduce over a float64 array: fewer than 8 elements are added in
\* order; from 8 on, eight running sums take every eighth element, are
\* combined pairwise, and the leftover elements are added in order
FSum(s) ==
  LET n == Len(s)
      full == n - (n % 8)
      lane(k) == FSumFrom([j \in 1..(full \div 8) |-> s[8 * (j - 1) + k]], 1, FZero)
      head == FAdd(FAdd(FAdd(lane(1), lane(2)), FAdd(lane(3), lane(4))),
                   FAdd(FAdd(lane(5), lane(6)), FAdd(lane(7), lane(8))))
  IN IF n < 8 THEN FSumFrom(s, 1, FZero)
     ELSE FSumFrom(s, full + 1, head)

\* np.mean over a non-empty sequence of floats: the sum, divided by the count
FMean(s) == FDivInt(FSum(s), Len(s))

(***************************************************************************)
(* difflib.SequenceMatcher(a=a, b=b).ratio() on texts shorter than 200     *)
(* characters (no junk, no "popular" characters).  Offsets are 0-based     *)
(* and ranges half-open as in Python: a[alo:ahi] is a[alo+1..ahi] here.    *)
(***************************************************************************)
MinOf(S) == CHOOSE x \in S : \A y \in S : x <= y
MaxOf(S) == CHOOSE x \in S : \A y \in S : y <= x

\* length of the longest common run a[i:i+k] = b[j:j+k] inside the ranges
RunLen(a, b, i, j, ahi, bhi) ==
  MaxOf({k \in 0..(IF ahi - i < bhi - j THEN ahi - i ELSE bhi - j) :
           \A t \in 1..k : a[i + t] = b[j + t]})

\* find_longest_match: the longest matching block of a[alo:ahi] and
\* b[blo:bhi]; of the longest ones the one starting earliest in a, and
\* of those the one starting earliest in b; (alo, blo, 0) if none
FindLongestMatch(a, b, alo, ahi, blo, bhi) ==
  LET starts == (alo..(ahi - 1)) \X (blo..(bhi - 1))
      size == MaxOf({0} \cup {RunLen(a, b, p[1], p[2], ahi, bhi) : p \in starts})
      best == {p \in starts : RunLen(a, b, p[1], p[2], ahi, bhi) = size}
      i == MinOf({p[1] : p \in best})
      j == MinOf({p[2] : p \in {q \in best : q[1] = i}})
  IN IF size = 0 THEN [i |-> alo, j |-> blo, k |-> 0]
     ELSE [i |-> i, j |-> j, k |-> size]

RECURSIVE Matches(_,_,_,_,_,_)
\* get_matching_blocks: total size of the blocks found by taking the
\* longest match and then matching what lies left of it and right of it
Matches(a, b, alo, ahi, blo, bhi) ==
  LET x == FindLongestMatch(a, b, alo, ahi, blo, bhi)
  IN IF x.k = 0 THEN 0
     ELSE x.k
          + (IF alo < x.i /\ blo < x.j
               THEN Matches(a, b, alo, x.i, blo, x.j) ELSE 0)
          + (IF x.i + x.k < ahi /\ x.j + x.k < bhi
               THEN Matches(a, b, x.i + x.k, ahi, x.j + x.k, bhi) ELSE 0)

\* ratio(): 2.0 * matches / (len(a) + len(b)), and 1.0 for two empty texts
Ratio(a, b) ==
  IF Len(a) + Len(b) = 0 THEN FOne
  ELSE FromRatio(2 * Matches(a, b, 0, Len(a), 0, Len(b)), Len(a) + Len(b))

(***************************************************************************)
(* ProviderRun                                                             *)
(***************************************************************************)
seq_sim(a, b) == Ratio(a, b)

RECURSIVE PairLoop_FromI(_,_,_,_)
\* PairLoop with the inner loop over range(i, n)
PairLoop_FromI(responses, i, j, sims) ==
  IF i >= Len(responses) THEN sims
  ELSE IF j >= Len(responses) THEN PairLoop_FromI(responses, i + 1, i + 1, sims)
  ELSE PairLoop_FromI(responses, i, j + 1,
                Append(sims, <<i, j, seq_sim(responses[i + 1], responses[j + 1])>>))

RECURSIVE PairLoop(_,_,_,_)
\* the two nested loops of from_responses: i over range(n), j over
\* range(i + 1, n), appending (i, j, seq_sim(responses[i], responses[j]))
PairLoop(responses, i, j, sims) ==
  IF i >= Len(responses) THEN sims
  ELSE IF j >= Len(responses) THEN PairLoop(responses, i + 1, i + 2, sims)
  ELSE PairLoop(responses, i, j + 1,
                Append(sims, <<i, j, seq_sim(responses[i + 1], responses[j + 1])>>))

from_responses(name, responses) ==
  LET sims == PairLoop(responses, 0, 1, << >>)
      scores == IF sims = << >> THEN <<FOne>>
                ELSE [p \in 1..Len(sims) |-> sims[p][3]]
  IN [name |-> name,
      responses |-> responses,
      pairwise |-> sims,
      mean_similarity |-> FMean(scores),
      min_similarity |-> FMinSeq(scores)]

(***************************************************************************)
(* cross_similarity and classify                                           *)
(***************************************************************************)
\* Totals with both loops calling the matcher as (a=ai, b=bj)
Totals_SameOrder(a, b) ==
  [i \in 1..Len(a) |-> FMaxSeq([j \in 1..Len(b) |-> Ratio(a[i], b[j])])]
  \o [j \in 1..Len(b) |-> FMaxSeq([i \in 1..Len(a) |-> Ratio(a[i], b[j])])]

\* the list `totals`: for each ai its best ratio against b, then for each
\* bj its best ratio against a
Totals(a, b) ==
  [i \in 1..Len(a) |-> FMaxSeq([j \in 1..Len(b) |-> Ratio(a[i], b[j])])]
  \o [j \in 1..Len(b) |-> FMaxSeq([i \in 1..Len(a) |-> Ratio(b[j], a[i])])]

cross_similarity(a, b) ==
  IF a = << >> \/ b = << >> THEN FOne
  ELSE LET totals == Totals(a, b)
       IN IF totals # << >> THEN FMean(totals) ELSE FOne

\* the literal 0.60 of classify
HighCut == FromRatio(60, 100)

\* classify with the first bound taken from the threshold
classify_CutFromThreshold(sep_cross, within, threshold) ==
  IF FLess(sep_cross, FMin2(HighCut, threshold)) THEN "high"
  ELSE IF FLess(sep_cross, threshold) THEN "medium"
  ELSE IF \E p \in DOMAIN within.val : FLess(within.val[p].mean_similarity, threshold)
    THEN "low"
  ELSE "none"

\* classify with its first two rules in the other order
classify_MediumFirst(sep_cross, within, threshold) ==
  IF FLess(sep_cross, threshold) THEN "medium"
  ELSE IF FLess(sep_cross, HighCut) THEN "high"
  ELSE IF \E p \in DOMAIN within.val : FLess(within.val[p].mean_similarity, threshold)
    THEN "low"
  ELSE "none"

\* within: a dict, given as its keys in insertion order and its values
classify(sep_cross, within, threshold) ==
  IF FLess(sep_cross, HighCut) THEN "high"
  ELSE IF FLess(sep_cross, threshold) THEN "medium"
  ELSE IF \E p \in DOMAIN within.val : FLess(within.val[p].mean_similarity, threshold)
    THEN "low"
  ELSE "none"

(***************************************************************************)
(* Inputs of the model.                                                    *)
(***************************************************************************)
\* the comma-separated pieces --providers may hold
Tokens == {"openai", " Anthropic", "gemini", ""}

\* p.strip().lower() on the pieces above
StripLower(p) == IF p = " Anthropic" THEN "anthropic" ELSE p

\* str.upper() on provider names
Upper(n) ==
  CASE n = "openai" -> "OPENAI"
    [] n = "anthropic" -> "ANTHROPIC"
    [] OTHER -> n

Selections == UNION {[1..n -> Tokens] : n \in 0..MaxSel}

\* values of --threshold: the default 0.85, and one below the 0.60 literal
Thresholds == {FromRatio(85, 100), FromRatio(1, 2)}

\* texts a provider answers with during a probe run
Texts == {<<"a", "a", "a">>, <<"a", "b", "b">>}

ListsUpTo(T, n) == UNION {[1..m -> T] : m \in 0..n}

(***************************************************************************)
(* A dict: its keys in insertion order and its values.                     *)
(***************************************************************************)
EmptyDict == [keys |-> << >>, val |-> << >>]

HasKey(d, key) == \E i \in 1..Len(d.keys) : d.keys[i] = key

\* a list of (key, value) in place of a dict: every store adds an entry
DictSet_AlwaysAppend(d, key, v) ==
  [keys |-> Append(d.keys, key),
   val |-> [x \in {d.keys[i] : i \in 1..Len(d.keys)} \cup {key} |->
              IF x = key THEN v ELSE d.val[x]]]

\* a dict that moves a key stored again to the end
DictSet_MoveToEnd(d, key, v) ==
  [keys |-> Append(SelectSeq(d.keys, LAMBDA x : x # key), key),
   val |-> [x \in {d.keys[i] : i \in 1..Len(d.keys)} \cup {key} |->
              IF x = key THEN v ELSE d.val[x]]]

\* d[key] = v: a new key goes last, an old key keeps its place
DictSet(d, key, v) ==
  [keys |-> IF HasKey(d, key) THEN d.keys ELSE Append(d.keys, key),
   val |-> [x \in {d.keys[i] : i \in 1..Len(d.keys)} \cup {key} |->
              IF x = key THEN v ELSE d.val[x]]]

(***************************************************************************)
(* The collaborators that are not part of the probe's own file.            *)
(***************************************************************************)
\* OpenAIProvider().name, AnthropicProvider().name
ProviderName(kind) == kind

\* what write_anomaly_outputs returns
SinkPaths == [json |-> "json", md |-> "md", latest |-> "latest"]

(***************************************************************************)
(* State of one probe run (main).                                          *)
(***************************************************************************)
VARIABLES
  pc,         \* where main stands
  args,       \* the parsed command line: providers (pieces), threshold
  selected,   \* the normalised provider selection
  prov_objs,  \* the provider objects, by kind
  k,          \* index of the running for loop
  runs,       \* dict name -> ProviderRun
  names, cross_sim, severity, card,
  generated,  \* every generate() call that returned: (name, responses)
  sink,       \* the records handed to write_anomaly_outputs
  paths,      \* what the sink returned
  index,      \* what _update_index_page met: script there?, how it ran
  log,        \* the lines _update_index_page printed
  err,        \* the exception that ended the run
  call        \* a call of one of the pure functions (SpecFn)

vars == <<pc, args, selected, prov_objs, k, runs, names, cross_sim, severity,
          card, generated, sink, paths, index, log, err, call>>

\* no exception
None == "none"
\* a variable not assigned yet
Unset == [unset |-> TRUE]

NoCall == [fn |-> None]

Init ==
  /\ pc = "start"
  /\ args \in [providers : Selections, threshold : Thresholds]
  /\ selected = << >>
  /\ prov_objs = << >>
  /\ k = 0
  /\ runs = EmptyDict
  /\ names = << >>
  /\ cross_sim = Unset
  /\ severity = "unset"
  /\ card = Unset
  /\ generated = << >>
  /\ sink = << >>
  /\ paths = Unset
  /\ index = Unset
  /\ log = << >>
  /\ err = None
  /\ call = NoCall

RECURSIVE Normalised(_)
\* [p.strip().lower() for p in pieces if p.strip()]
Normalised(pieces) ==
  IF pieces = << >> THEN << >>
  ELSE IF StripLower(pieces[1]) = "" THEN Normalised(Tail(pieces))
  ELSE <<StripLower(pieces[1])>> \o Normalised(Tail(pieces))

Raise(e) == pc' = "aborted" /\ err' = e

\* line 111
ParseSelection ==
  /\ pc = "start"
  /\ selected' = Normalised(args.providers)
  /\ pc' = "instantiate"
  /\ k' = 1
  /\ UNCHANGED <<args, prov_objs, runs, names, cross_sim, severity, card,
                 generated, sink, paths, index, log, err, call>>

\* lines 113-119, one turn of the loop
Instantiate ==
  /\ pc = "instantiate"
  /\ k <= Len(selected)
  /\ IF selected[k] = "openai" \/ selected[k] = "anthropic"
       THEN /\ prov_objs' = Append(prov_objs, selected[k])
            /\ k' = k + 1
            /\ UNCHANGED <<pc, err>>
       ELSE /\ Raise("ValueError")
            /\ UNCHANGED <<prov_objs, k>>
  /\ UNCHANGED <<args, selected, runs, names, cross_sim, severity, card,
                 generated, sink, paths, index, log, call>>

\* the loop of lines 113-119 is over
InstantiateDone ==
  /\ pc = "instantiate"
  /\ k > Len(selected)
  /\ pc' = "collect"
  /\ k' = 1
  /\ UNCHANGED <<args, selected, prov_objs, runs, names, cross_sim, severity,
                 card, generated, sink, paths, index, log, err, call>>

\* lines 124-125: generate() returns
Generate ==
  /\ pc = "collect"
  /\ k <= Len(prov_objs)
  /\ \E responses \in ListsUpTo(Texts, MaxRuns) :
       LET name == ProviderName(prov_objs[k])
       IN /\ runs' = DictSet(runs, name, from_responses(name, responses))
          /\ generated' = Append(generated, <<name, responses>>)
  /\ k' = k + 1
  /\ UNCHANGED <<pc, args, selected, prov_objs, names, cross_sim, severity,
                 card, sink, paths, index, log, err, call>>

\* line 124: generate() raises; main does not catch it
GenerateFails ==
  /\ pc = "collect"
  /\ k <= Len(prov_objs)
  /\ Raise("ProviderError")
  /\ UNCHANGED <<args, selected, prov_objs, k, runs, names, cross_sim,
                 severity, card, generated, sink, paths, index, log, call>>

\* lines 128-132
Compare ==
  /\ pc = "collect"
  /\ k > Len(prov_objs)
  /\ names' = runs.keys
  /\ IF Len(runs.keys) < 2
       THEN /\ Raise("RuntimeError")
            /\ UNCHANGED cross_sim
       ELSE /\ cross_sim' = cross_similarity(runs.val[runs.keys[1]].responses,
                                             runs.val[runs.keys[2]].responses)
            /\ pc' = "classify"
            /\ UNCHANGED err
  /\ UNCHANGED <<args, selected, prov_objs, k, runs, severity, card,
                 generated, sink, paths, index, log, call>>

\* line 135
Classify ==
  /\ pc = "classify"
  /\ severity' = classify(cross_sim, runs, args.threshold)
  /\ pc' = "card"
  /\ UNCHANGED <<args, selected, prov_objs, k, runs, names, cross_sim, card,
                 generated, sink, paths, index, log, err, call>>

\* the severity stored without the remapping
CardSeverity_NoRemap(sev) == sev

\* line 147: severity if severity != "none" else "low"
CardSeverity(sev) == IF sev # "none" THEN sev ELSE "low"

\* responses[:3]
SampleCap == 3
FirstResponses(r) == SubSeq(r, 1, IF Len(r) < SampleCap THEN Len(r) ELSE SampleCap)

\* lines 139-165 (the description, a rendering of values that meta holds
\* too, the prompt, the run count, the temperature and the timestamp are
\* left out)
BuildCard ==
  /\ pc = "card"
  /\ LET a == names[1]
         b == names[2]
     IN card' =
          [id |-> Upper(a) \o "-vs-" \o Upper(b) \o "-DIVERGENCE",
           severity |-> CardSeverity(severity),
           meta |-> [threshold |-> args.threshold,
                     providers |-> runs.keys,
                     samples |-> DictSet(DictSet(EmptyDict, a,
                                   FirstResponses(runs.val[a].responses)), b,
                                   FirstResponses(runs.val[b].responses)),
                     cross_similarity |-> cross_sim,
                     within |-> DictSet(DictSet(EmptyDict, a,
                                   [mean |-> runs.val[a].mean_similarity,
                                    min |-> runs.val[a].min_similarity]), b,
                                   [mean |-> runs.val[b].mean_similarity,
                                    min |-> runs.val[b].min_similarity])]]
  /\ pc' = "persist"
  /\ UNCHANGED <<args, selected, prov_objs, k, runs, names, cross_sim,
                 severity, generated, sink, paths, index, log, err, call>>

\* the record handed to the sink twice
Persist_Twice ==
  /\ pc = "persist"
  /\ sink' = Append(Append(sink, card), card)
  /\ paths' = SinkPaths
  /\ pc' = "notify"
  /\ UNCHANGED <<args, selected, prov_objs, k, runs, names, cross_sim,
                 severity, card, generated, index, log, err, call>>

\* line 167
Persist ==
  /\ pc = "persist"
  /\ sink' = Append(sink, card)
  /\ paths' = SinkPaths
  /\ pc' = "notify"
  /\ UNCHANGED <<args, selected, prov_objs, k, runs, names, cross_sim,
                 severity, card, generated, index, log, err, call>>

\* how running scripts/update_index.py can end
ScriptOutcomes == {"rc0", "rc1", "exception"}

\* _update_index_page without its try/except
update_index_page_NoExcept(exists, outcome) ==
  [line |-> IF ~exists THEN "not found; skipping"
            ELSE IF outcome = "rc0" THEN "index.md updated"
            ELSE IF outcome = "exception" THEN "Traceback"
            ELSE "exited with code (continuing)",
   raises |-> exists /\ outcome = "exception"]

\* _update_index_page(), lines 87-98: the line it prints, and whether an
\* exception leaves it
update_index_page(exists, outcome) ==
  [line |-> IF ~exists THEN "not found; skipping"
            ELSE IF outcome = "rc0" THEN "index.md updated"
            ELSE IF outcome = "exception" THEN "failed to update (continuing)"
            ELSE "exited with code (continuing)",
   raises |-> FALSE]

\* line 170; the prints of lines 173-181 follow and main returns
UpdateIndexPage ==
  /\ pc = "notify"
  /\ \E exists \in BOOLEAN : \E outcome \in ScriptOutcomes :
       LET r == update_index_page(exists, outcome)
       IN /\ index' = [exists |-> exists,
                       outcome |-> IF exists THEN outcome ELSE "not run"]
          /\ log' = Append(log, r.line)
          /\ IF r.raises THEN Raise("Exception")
             ELSE pc' = "done" /\ UNCHANGED err
  /\ UNCHANGED <<args, selected, prov_objs, k, runs, names, cross_sim,
                 severity, card, generated, sink, paths, call>>

Next ==
  \/ ParseSelection
  \/ Instantiate
  \/ InstantiateDone
  \/ Generate
  \/ GenerateFails
  \/ Compare
  \/ Classify
  \/ BuildCard
  \/ Persist
  \/ UpdateIndexPage

Spec == Init /\ [][Next]_vars

(***************************************************************************)
(* The pure functions called on their own: Init draws the arguments, an    *)
(* action applies the function.                                            *)
(***************************************************************************)
\* texts given to the functions: an empty text, and two texts whose ratio
\* depends on the order of the arguments
FnTexts == {<< >>, <<"a", "a", "a">>, <<"a", "a", "b", "a">>, <<"b", "a", "a", "a">>}

\* scores and thresholds given to classify, in hundredths
FnScores == {FromRatio(n, 100) : n \in {0, 50, 59, 60, 61, 84, 85, 86, 100}}
FnThresholds == {FromRatio(n, 100) : n \in {50, 60, 85, 100}}
FnMeans == {FromRatio(n, 100) : n \in {50, 85, 100}}

\* mappings of sampled providers to their runs, of which classify reads
\* mean_similarity
FnProviders == <<"openai", "anthropic", "mistral">>
FnWithins ==
  UNION {{[keys |-> SubSeq(FnProviders, 1, n), val |-> v] :
            v \in [{FnProviders[i] : i \in 1..n} -> [mean_similarity : FnMeans]]} :
         n \in 0..Len(FnProviders)}

FnCalls ==
  [fn : {"classify"}, sep_cross : FnScores, other : FnScores,
   within : FnWithins, threshold : FnThresholds]
  \cup [fn : {"cross_similarity"}, a : ListsUpTo(FnTexts, MaxRuns),
        b : ListsUpTo(FnTexts, MaxRuns)]
  \cup [fn : {"from_responses"}, responses : ListsUpTo(FnTexts, MaxLen)]

InitFn ==
  /\ pc = "fn"
  /\ args = Unset
  /\ selected = << >>
  /\ prov_objs = << >>
  /\ k = 0
  /\ runs = EmptyDict
  /\ names = << >>
  /\ cross_sim = Unset
  /\ severity = "unset"
  /\ card = Unset
  /\ generated = << >>
  /\ sink = << >>
  /\ paths = Unset
  /\ index = Unset
  /\ log = << >>
  /\ err = None
  /\ call \in [in : FnCalls, done : {FALSE}]

mainVars == <<pc, args, selected, prov_objs, k, runs, names, cross_sim,
              severity, card, generated, sink, paths, index, log, err>>

\* classify(sep_cross, within, threshold), and the same call with the
\* other score
CallClassify ==
  /\ ~call.done
  /\ call.in.fn = "classify"
  /\ call' = [in |-> call.in, done |-> TRUE,
              ret |-> classify(call.in.sep_cross, call.in.within, call.in.threshold),
              ret_other |-> classify(call.in.other, call.in.within, call.in.threshold)]
  /\ UNCHANGED mainVars

\* cross_similarity(a, b), and cross_similarity(b, a)
CallCrossSimilarity ==
  /\ ~call.done
  /\ call.in.fn = "cross_similarity"
  /\ call' = [in |-> call.in, done |-> TRUE,
              ret |-> cross_similarity(call.in.a, call.in.b),
              ret_swapped |-> cross_similarity(call.in.b, call.in.a)]
  /\ UNCHANGED mainVars

\* ProviderRun.from_responses("p", responses)
CallFromResponses ==
  /\ ~call.done
  /\ call.in.fn = "from_responses"
  /\ call' = [in |-> call.in, done |-> TRUE,
              ret |-> from_responses("p", call.in.responses)]
  /\ UNCHANGED mainVars

NextFn ==
  \/ CallClassify
  \/ CallCrossSimilarity
  \/ CallFromResponses

SpecFn == InitFn /\ [][NextFn]_vars

(***************************************************************************)
(* Properties.                                                             *)
(***************************************************************************)
FnDone(fn) == call # NoCall /\ call.done /\ call.in.fn = fn

\* none < low < medium < high
Rank(sev) ==
  CASE sev = "none" -> 0 [] sev = "low" -> 1 [] sev = "medium" -> 2 [] sev = "high" -> 3

\* C1: classify returns the first matching outcome of the ordered rules:
\* high iff cross_score < 0.60 (the same 0.60 for every threshold), medium
\* iff not that and cross_score < threshold, low iff neither and some
\* sampled provider (any of them) has mean_similarity < threshold, none
\* iff nothing matches.
C1_ClassifyRules ==
  FnDone("classify") =>
    LET c == call.in.sep_cross
        t == call.in.threshold
        w == call.in.within
        below060 == FLess(c, FromRatio(3, 5))
        belowT == FLess(c, t)
        someLow == \E i \in 1..Len(w.keys) :
                     FLess(w.val[w.keys[i]].mean_similarity, t)
    IN /\ (call.ret = "high") <=> below060
       /\ (call.ret = "medium") <=> (~below060 /\ belowT)
       /\ (call.ret = "low") <=> (~below060 /\ ~belowT /\ someLow)
       /\ (call.ret = "none") <=> (~below060 /\ ~belowT /\ ~someLow)

\* a call answered low because of the third provider alone, under a
\* threshold other than the default
C1_Witness ==
  /\ FnDone("classify")
  /\ call.ret = "low"
  /\ call.in.threshold = FromRatio(60, 100)
  /\ Len(call.in.within.keys) = 3
  /\ \A i \in 1..2 :
       ~FLess(call.in.within.val[call.in.within.keys[i]].mean_similarity,
              call.in.threshold)

\* C9: for one threshold and one mapping, a cross score that is not larger
\* is classified at least as severe.
C9_Monotonic ==
  (FnDone("classify") /\ ~FLess(call.in.other, call.in.sep_cross)) =>
    Rank(call.ret) >= Rank(call.ret_other)

\* a smaller score classified strictly more severe, with the threshold
\* below 0.60
C9_Witness ==
  /\ FnDone("classify")
  /\ FLess(call.in.sep_cross, call.in.other)
  /\ FLess(call.in.threshold, HighCut)
  /\ Rank(call.ret) > Rank(call.ret_other)

\* C6: cross_similarity(A, B) == cross_similarity(B, A) for any two
\* response sets.
C6_CrossSymmetric ==
  FnDone("cross_similarity") => call.ret = call.ret_swapped

\* the largest of the ratios of x against each text of ys
BestAgainst(x, ys) ==
  LET rs == {Ratio(x, ys[j]) : j \in 1..Len(ys)}
  IN CHOOSE v \in rs : \A u \in rs : ~FLess(v, u)

\* C7: cross_similarity returns exactly 1.0 if A or B is empty; otherwise
\* the mean of |A| + |B| values: for each a its best similarity against B,
\* then for each b its best similarity against A.
C7_CrossValue ==
  FnDone("cross_similarity") =>
    LET a == call.in.a
        b == call.in.b
    IN IF a = << >> \/ b = << >> THEN call.ret = FOne
       ELSE call.ret =
              FMean([i \in 1..(Len(a) + Len(b)) |->
                       IF i <= Len(a) THEN BestAgainst(a[i], b)
                       ELSE BestAgainst(b[i - Len(a)], a)])

\* two non-empty sets of different sizes holding a pair of texts whose
\* ratio depends on the argument order
C7_Witness ==
  /\ FnDone("cross_similarity")
  /\ Len(call.in.a) = 1
  /\ Len(call.in.b) = 2
  /\ Ratio(call.in.a[1], call.in.b[1]) # Ratio(call.in.b[1], call.in.a[1])
  /\ call.ret # FOne

\* C8: from_responses on 0 or 1 responses gives no pairwise score and
\* mean = min = 1.0; on n >= 2 it gives exactly one score for each index
\* pair i < j (n(n-1)/2 of them), the similarity of the two responses, and
\* mean and min are the mean and the minimum of those scores.
C8_FromResponses ==
  FnDone("from_responses") =>
    LET r == call.in.responses
        n == Len(r)
        run == call.ret
        pw == run.pairwise
        pairs == {p \in (0..(n - 1)) \X (0..(n - 1)) : p[1] < p[2]}
    IN /\ run.responses = r
       /\ n < 2 => /\ pw = << >>
                   /\ run.mean_similarity = FOne
                   /\ run.min_similarity = FOne
       /\ n >= 2 =>
            /\ 2 * Len(pw) = n * (n - 1)
            /\ \A p \in pairs :
                 \E q \in 1..Len(pw) :
                   /\ pw[q] = <<p[1], p[2], seq_sim(r[p[1] + 1], r[p[2] + 1])>>
                   /\ \A q2 \in 1..Len(pw) :
                        (pw[q2][1] = p[1] /\ pw[q2][2] = p[2]) => q2 = q
            /\ run.mean_similarity = FMean([q \in 1..Len(pw) |-> pw[q][3]])
            /\ \E q \in 1..Len(pw) : pw[q][3] = run.min_similarity
            /\ \A q \in 1..Len(pw) : ~FLess(pw[q][3], run.min_similarity)

\* three responses whose pairwise scores differ
C8_Witness ==
  /\ FnDone("from_responses")
  /\ Len(call.in.responses) = 3
  /\ Len(call.ret.pairwise) = 3
  /\ FLess(call.ret.min_similarity, call.ret.mean_similarity)

\* the names of the providers instantiated
DistinctNames == {ProviderName(prov_objs[i]) : i \in 1..Len(prov_objs)}

\* every provider was instantiated and every generate() call returned
Collected ==
  /\ pc \notin {"fn", "start", "instantiate", "collect"}
  /\ Len(prov_objs) = Len(selected)
  /\ Len(generated) = Len(prov_objs)

Built == pc \in {"persist", "notify", "done"}

\* C3: the severity stored in the record is the classifier's output with
\* none stored as low, so it is one of low, medium, high.
C3_StoredSeverity ==
  /\ Built =>
       /\ severity \in {"none", "low", "medium", "high"}
       /\ card.severity = (IF severity = "none" THEN "low" ELSE severity)
       /\ card.severity \in {"low", "medium", "high"}
  /\ \A i \in 1..Len(sink) : sink[i].severity \in {"low", "medium", "high"}

\* a finished run whose classifier said none and whose record says low
C3_Witness ==
  /\ pc = "done"
  /\ severity = "none"
  /\ Len(sink) = 1
  /\ sink[1].severity = "low"

\* C4: the sink is called exactly once in a run that completes and never
\* in a run that aborts (generate fails, unsupported provider, fewer than
\* two provider collections).
C4_SinkOnce ==
  /\ Len(sink) <= 1
  /\ pc = "done" => (Len(sink) = 1 /\ sink[1] = card /\ err = None)
  /\ pc = "aborted" =>
       /\ sink = << >>
       /\ paths = Unset
       /\ err \in {"ProviderError", "ValueError", "RuntimeError"}

\* a run aborted by the third generate() call after two that returned
C4_Witness ==
  /\ pc = "aborted"
  /\ err = "ProviderError"
  /\ Len(generated) = 2
  /\ sink = << >>

\* C5: whatever the notifier meets (script missing, non-zero exit code,
\* exception), it prints one line and raises nothing; it runs only after
\* the record was handed to the sink, and the run completes.
C5_NotifierSwallowed ==
  /\ index # Unset =>
       /\ pc = "done"
       /\ err = None
       /\ Len(sink) = 1
       /\ Len(log) = 1
       /\ (log[1] = "index.md updated") <=> (index.outcome = "rc0")
  /\ index = Unset => log = << >>
  /\ pc = "notify" => Len(sink) = 1

\* a finished run whose notifier met an exception
C5_Witness ==
  /\ pc = "done"
  /\ index # Unset
  /\ index.outcome = "exception"
  /\ log = <<"failed to update (continuing)">>

\* the first two distinct names of the selection, in order of first
\* appearance
FirstName == ProviderName(selected[1])
SecondName ==
  ProviderName(selected[MinOf({i \in 1..Len(selected) :
                                 ProviderName(selected[i]) # FirstName})])

\* what the latest generate() call of provider n returned
LastResponses(n) ==
  generated[MaxOf({i \in 1..Len(generated) : generated[i][1] = n})][2]

\* C10: the record is about the first two distinct provider names of the
\* selection, in order of first appearance: its identifier names them,
\* and its cross score, samples and within-provider statistics are theirs.
C10_FirstTwo ==
  /\ pc = "persist" =>
       LET fa == LastResponses(FirstName)
           fb == LastResponses(SecondName)
           ra == from_responses(FirstName, fa)
           rb == from_responses(SecondName, fb)
       IN /\ card.id = Upper(FirstName) \o "-vs-" \o Upper(SecondName) \o "-DIVERGENCE"
          /\ card.meta.cross_similarity = cross_similarity(fa, fb)
          /\ card.meta.samples.keys = <<FirstName, SecondName>>
          /\ card.meta.samples.val[FirstName] = fa
          /\ card.meta.samples.val[SecondName] = fb
          /\ card.meta.within.keys = <<FirstName, SecondName>>
          /\ card.meta.within.val[FirstName] =
               [mean |-> ra.mean_similarity, min |-> ra.min_similarity]
          /\ card.meta.within.val[SecondName] =
               [mean |-> rb.mean_similarity, min |-> rb.min_similarity]
  /\ \A i \in 1..Len(sink) : sink[i] = card

\* a selection of three that repeats its first provider
C10_Witness ==
  /\ pc = "persist"
  /\ selected = <<"anthropic", "openai", "anthropic">>
  /\ card.id = "ANTHROPIC-vs-OPENAI-DIVERGENCE"
  /\ generated[1][2] # generated[3][2]

====
